---------------------------- MODULE Spec2Model ----------------------------
(***************************************************************************)
(* Carrier Helper: the time-entry store, its editor and clock handlers,    *)
(* the entry validators and the hour calculators of js/common.js.          *)
(*                                                                         *)
(* Time.  An instant is a whole number of hours since the epoch (the code  *)
(* counts milliseconds; every duration the code divides by 3600000 is kept *)
(* here as a number of hours).  An ISO-8601 string is modelled by the      *)
(* instant it denotes, a datetime-local string by the local wall-clock     *)
(* hour count it denotes; the two differ by TimezoneOffset.                *)
(*                                                                         *)
(* JavaScript values that are not instants are negative codes: Null,       *)
(* Undefined, EmptyString, NotADate (a non-empty string that does not      *)
(* parse as a date) and NumberValue (a value whose typeof is "number").    *)
(* Entry ids are the positive integers: n stands for the n-th string       *)
(* returned by crypto.randomUUID().  Note texts are the integers >= 0.     *)
(***************************************************************************)
EXTENDS Integers, Sequences, FiniteSets, TLC

VARIABLES
    entries,        \* localStorage[STORAGE_KEY]: the persisted sequence of entries
    now,            \* the system clock read by new Date()
    nextId,         \* number of ids crypto.randomUUID() has handed out, plus one
    currentEditId,  \* edit-modal.js: id of the entry being edited, or Null
    call,           \* the engine function applied last: its arguments and result
    sync,           \* cloud-sync.js: the module state of this device
    cloudDoc,       \* the Firestore document users/<uid>/userData/entries
    peer,           \* a second device of the same user: its store and module state
    viewer          \* data-viewer.js: view mode, week, custom range and selected ids

vars == <<entries, now, nextId, currentEditId, call, sync, cloudDoc, peer, viewer>>

---------------------------------------------------------------------------
(* JavaScript values *)

Null == -1
Undefined == -2
EmptyString == -3
NotADate == -4
NumberValue == -5

\* !v for the values an entry field can hold
Falsy(v) == v \in {Null, Undefined, EmptyString}

\* typeof v === "string"
IsString(v) == v >= 0 \/ v \in {EmptyString, NotADate}

\* !isNaN(new Date(v).getTime()) for a truthy v
ParsesToDate(v) == v >= 0

---------------------------------------------------------------------------
(* Bounds *)

MaxNow == 1         \* the clock runs from 0 to MaxNow
MaxLocal == 1       \* datetime-local inputs of the editor denote 0..MaxLocal
MaxEntries == 2     \* ids handed out by crypto.randomUUID()

\* Date.getTimezoneOffset() of the host, in hours: UTC minus local time
TimezoneOffset == 1

---------------------------------------------------------------------------
(* Sequences *)

\* entries.filter((e) => !ids.has(e.id)), order kept
RECURSIVE WithoutIds(_, _)
WithoutIds(s, ids) ==
    IF s = <<>> THEN <<>>
    ELSE IF Head(s).id \notin ids THEN <<Head(s)>> \o WithoutIds(Tail(s), ids)
         ELSE WithoutIds(Tail(s), ids)

\* entries.findIndex((e) => e.id === id): the first index with that id, 0 if none
IndexOfId(s, id) ==
    IF \E i \in 1..Len(s) : s[i].id = id
    THEN CHOOSE i \in 1..Len(s) : s[i].id = id /\ \A j \in 1..(i - 1) : s[j].id # id
    ELSE 0

\* Insert e after every element whose clockIn is <= e.clockIn (stable)
RECURSIVE InsertByClockIn(_, _)
InsertByClockIn(s, e) ==
    IF s = <<>> THEN <<e>>
    ELSE IF Head(s).clockIn <= e.clockIn
         THEN <<Head(s)>> \o InsertByClockIn(Tail(s), e)
         ELSE <<e>> \o s

\* [...entries].sort((a, b) => new Date(a.clockIn) - new Date(b.clockIn)): stable
RECURSIVE SortByClockIn(_)
SortByClockIn(s) ==
    IF s = <<>> THEN <<>>
    ELSE InsertByClockIn(SortByClockIn(SubSeq(s, 1, Len(s) - 1)), s[Len(s)])

---------------------------------------------------------------------------
(* common.js: storage and entry operations *)

\* saveEntries writing the array as it was given
saveEntries_unsorted(es) == es

\* saveEntries: what localStorage holds after the call
saveEntries(es) == SortByClockIn(es)

\* map.set(e.id, e) on a Map held as the sequence of its values in insertion order: a
\* key already present keeps its place and takes the new value
MapSet(m, e) ==
    LET i == IndexOfId(m, e.id)
    IN  IF i # 0 THEN [m EXCEPT ![i] = e] ELSE Append(m, e)

\* s.forEach((e) => map.set(e.id, e))
RECURSIVE MapSetAll(_, _)
MapSetAll(m, s) ==
    IF s = <<>> THEN m ELSE MapSetAll(MapSet(m, Head(s)), Tail(s))

\* mergeEntries filling the map from incoming first and existing second, so that the
\* existing record wins
mergeEntries_existingWins(existing, incoming) ==
    SortByClockIn(MapSetAll(MapSetAll(<<>>, incoming), existing))

\* mergeEntries: Array.from(map.values()).sort(by clockIn)
mergeEntries(existing, incoming) ==
    SortByClockIn(MapSetAll(MapSetAll(<<>>, existing), incoming))

\* getOpenEntry: index of the first entry whose clockOut === null, 0 for null
getOpenEntry(es) ==
    IF \E i \in 1..Len(es) : es[i].clockOut = Null
    THEN CHOOSE i \in 1..Len(es) :
             es[i].clockOut = Null /\ \A j \in 1..(i - 1) : es[j].clockOut # Null
    ELSE 0

createEntry(id, t) == [id |-> id, clockIn |-> t, clockOut |-> Null, notes |-> EmptyString]

\* clockOutEntry: the entry after entry.clockOut = new Date().toISOString()
clockOutEntry(entry, t) == [entry EXCEPT !.clockOut = t]

\* The value null where an entry object is expected
NullEntry == [null |-> TRUE]

\* validateEntry accepting a clockOut equal to clockIn (< for <=)
validateEntry_acceptsZeroLength(entry) ==
    IF entry = NullEntry \/ ~IsString(entry.id) \/ Falsy(entry.id) THEN FALSE
    ELSE IF Falsy(entry.clockIn) \/ ~ParsesToDate(entry.clockIn) THEN FALSE
    ELSE IF entry.notes # Undefined /\ ~IsString(entry.notes) THEN FALSE
    ELSE IF ~Falsy(entry.clockOut)
         THEN IF ~ParsesToDate(entry.clockOut) THEN FALSE
              ELSE IF entry.clockOut < entry.clockIn THEN FALSE
              ELSE TRUE
         ELSE TRUE

validateEntry(entry) ==
    IF entry = NullEntry \/ ~IsString(entry.id) \/ Falsy(entry.id) THEN FALSE
    ELSE IF Falsy(entry.clockIn) \/ ~ParsesToDate(entry.clockIn) THEN FALSE
    ELSE IF entry.notes # Undefined /\ ~IsString(entry.notes) THEN FALSE
    ELSE IF ~Falsy(entry.clockOut)
         THEN IF ~ParsesToDate(entry.clockOut) THEN FALSE
              ELSE IF entry.clockOut <= entry.clockIn THEN FALSE
              ELSE TRUE
         ELSE TRUE

\* validateNoOverlap with <= for <: entries that touch count as overlapping
validateNoOverlap_touchingOverlaps(entry, allEntries) ==
    LET others == WithoutIds(allEntries, {entry.id})
        entryStart == entry.clockIn
        entryEnd == IF ~Falsy(entry.clockOut) THEN entry.clockOut ELSE Null
        Overlaps(other) ==
            LET otherStart == other.clockIn
                otherEnd == IF ~Falsy(other.clockOut) THEN other.clockOut ELSE Null
                entryStartsBeforeOtherEnds == otherEnd = Null \/ entryStart <= otherEnd
                otherStartsBeforeEntryEnds == entryEnd = Null \/ otherStart <= entryEnd
            IN  entryStartsBeforeOtherEnds /\ otherStartsBeforeEntryEnds
    IN  ~\E i \in 1..Len(others) : Overlaps(others[i])

validateNoOverlap(entry, allEntries) ==
    LET others == WithoutIds(allEntries, {entry.id})
        entryStart == entry.clockIn
        entryEnd == IF ~Falsy(entry.clockOut) THEN entry.clockOut ELSE Null
        Overlaps(other) ==
            LET otherStart == other.clockIn
                otherEnd == IF ~Falsy(other.clockOut) THEN other.clockOut ELSE Null
                entryStartsBeforeOtherEnds == otherEnd = Null \/ entryStart < otherEnd
                otherStartsBeforeEntryEnds == entryEnd = Null \/ otherStart < entryEnd
            IN  entryStartsBeforeOtherEnds /\ otherStartsBeforeEntryEnds
    IN  ~\E i \in 1..Len(others) : Overlaps(others[i])

\* validateSingleOpenEntry without the exclusion of later entries that are closed
validateSingleOpenEntry_onlyOpenOthers(entry, allEntries) ==
    IF ~Falsy(entry.clockOut) THEN TRUE
    ELSE LET entryStart == entry.clockIn
             others == WithoutIds(allEntries, {entry.id})
         IN  ~\E i \in 1..Len(others) :
                 others[i].clockIn > entryStart /\ Falsy(others[i].clockOut)

validateSingleOpenEntry(entry, allEntries) ==
    IF ~Falsy(entry.clockOut) THEN TRUE
    ELSE LET entryStart == entry.clockIn
             others == WithoutIds(allEntries, {entry.id})
         IN  ~\E i \in 1..Len(others) : others[i].clockIn > entryStart

---------------------------------------------------------------------------
(* common.js: hours and pay calculation *)

\* A local calendar day has 24 hours (the host zone is a fixed-offset zone)
HoursPerDay == 24

Max(a, b) == IF a >= b THEN a ELSE b
Min(a, b) == IF a <= b THEN a ELSE b

\* new Date(t) with setHours(0, 0, 0, 0): local midnight of the day containing t
LocalMidnight(t) == t - ((t - TimezoneOffset) % HoursPerDay)

\* Date.getDay() of the local day starting at instant day; 1 January 1970 was a Thursday
getDay(day) == (4 + ((day - TimezoneOffset) \div HoursPerDay)) % 7

\* toLocalDateString: the local calendar date, as a day number
toLocalDateString(t) == (t - TimezoneOffset) \div HoursPerDay

\* getShiftHours without the early return for an open entry: new Date(null) is the epoch
getShiftHours_noOpenCheck(entry) ==
    IF Falsy(entry.clockOut) THEN 0 - entry.clockIn
    ELSE entry.clockOut - entry.clockIn

getShiftHours(entry) ==
    IF Falsy(entry.clockOut) THEN 0
    ELSE entry.clockOut - entry.clockIn

\* The day pass with the evening segment running on to the next day's nightEnd, so
\* that the morning hours are counted by two passes
NightMsOfDay_eveningRunsOn(day, shiftStart, shiftEnd, nightStart, nightEnd, wraps) ==
    IF wraps
    THEN LET seg1Start == day + nightStart
             seg1End == day + HoursPerDay + nightEnd
             seg2Start == day
             seg2End == day + nightEnd
         IN  Max(0, Min(shiftEnd, seg1End) - Max(shiftStart, seg1Start))
             + Max(0, Min(shiftEnd, seg2End) - Max(shiftStart, seg2Start))
    ELSE LET segStart == day + nightStart
             segEnd == day + nightEnd
         IN  Max(0, Min(shiftEnd, segEnd) - Max(shiftStart, segStart))

\* The day pass without Math.max(0, ...): a segment the shift does not reach
\* contributes a negative length
NightMsOfDay_unclamped(day, shiftStart, shiftEnd, nightStart, nightEnd, wraps) ==
    IF wraps
    THEN LET seg1Start == day + nightStart
             seg1End == day + HoursPerDay
             seg2Start == day
             seg2End == day + nightEnd
         IN  (Min(shiftEnd, seg1End) - Max(shiftStart, seg1Start))
             + (Min(shiftEnd, seg2End) - Max(shiftStart, seg2Start))
    ELSE LET segStart == day + nightStart
             segEnd == day + nightEnd
         IN  Min(shiftEnd, segEnd) - Max(shiftStart, segStart)

\* One pass of the day loop of calculateNightDiffHours, for the local day starting at day.
\* nightStart and nightEnd are the hours of "HH:00" window bounds.
NightMsOfDay(day, shiftStart, shiftEnd, nightStart, nightEnd, wraps) ==
    IF wraps
    THEN LET seg1Start == day + nightStart
             seg1End == day + HoursPerDay
             seg2Start == day
             seg2End == day + nightEnd
         IN  Max(0, Min(shiftEnd, seg1End) - Max(shiftStart, seg1Start))
             + Max(0, Min(shiftEnd, seg2End) - Max(shiftStart, seg2Start))
    ELSE LET segStart == day + nightStart
             segEnd == day + nightEnd
         IN  Max(0, Min(shiftEnd, segEnd) - Max(shiftStart, segStart))

\* for (day = startDay; day <= shiftEnd; day.setDate(day.getDate() + 1))
RECURSIVE NightDayLoop(_, _, _, _, _, _)
NightDayLoop(day, shiftStart, shiftEnd, nightStart, nightEnd, wraps) ==
    IF day <= shiftEnd
    THEN NightMsOfDay(day, shiftStart, shiftEnd, nightStart, nightEnd, wraps)
         + NightDayLoop(day + HoursPerDay, shiftStart, shiftEnd, nightStart, nightEnd, wraps)
    ELSE 0

calculateNightDiffHours(entry, meta) ==
    IF Falsy(entry.clockOut) THEN 0
    ELSE LET shiftStart == entry.clockIn
             shiftEnd == entry.clockOut
             nightStartH == meta.nightDiffStartTime
             nightEndH == meta.nightDiffEndTime
             wraps == nightStartH * 60 > nightEndH * 60
         IN  NightDayLoop(LocalMidnight(shiftStart), shiftStart, shiftEnd,
                          nightStartH, nightEndH, wraps)

\* The day loop adding the whole local day for a Sunday, without clipping it to the shift
RECURSIVE SundayDayLoop_wholeDay(_, _, _)
SundayDayLoop_wholeDay(day, shiftStart, shiftEnd) ==
    IF day <= shiftEnd
    THEN (IF getDay(day) = 0
          THEN LET dayStart == day
                   dayEnd == day + HoursPerDay
               IN  Max(0, dayEnd - dayStart)
          ELSE 0)
         + SundayDayLoop_wholeDay(day + HoursPerDay, shiftStart, shiftEnd)
    ELSE 0

\* for (day = startDay; day <= shiftEnd; day.setDate(day.getDate() + 1))
RECURSIVE SundayDayLoop(_, _, _)
SundayDayLoop(day, shiftStart, shiftEnd) ==
    IF day <= shiftEnd
    THEN (IF getDay(day) = 0
          THEN LET dayStart == day
                   dayEnd == day + HoursPerDay
               IN  Max(0, Min(shiftEnd, dayEnd) - Max(shiftStart, dayStart))
          ELSE 0)
         + SundayDayLoop(day + HoursPerDay, shiftStart, shiftEnd)
    ELSE 0

\* calculateSundayHours deciding by the day the shift starts on: the whole shift
\* counts when it starts on a Sunday, none of it otherwise
calculateSundayHours_byStartDay(entry) ==
    IF Falsy(entry.clockOut) THEN 0
    ELSE IF getDay(LocalMidnight(entry.clockIn)) = 0
         THEN Max(0, entry.clockOut - entry.clockIn)
         ELSE 0

calculateSundayHours(entry) ==
    IF Falsy(entry.clockOut) THEN 0
    ELSE SundayDayLoop(LocalMidnight(entry.clockIn), entry.clockIn, entry.clockOut)

\* Sum of F over the elements of a sequence
RECURSIVE SumHours(_)
SumHours(s) == IF s = <<>> THEN 0 ELSE getShiftHours(Head(s)) + SumHours(Tail(s))

RECURSIVE SumNight(_, _)
SumNight(s, meta) ==
    IF s = <<>> THEN 0 ELSE calculateNightDiffHours(Head(s), meta) + SumNight(Tail(s), meta)

RECURSIVE SumSunday(_)
SumSunday(s) == IF s = <<>> THEN 0 ELSE calculateSundayHours(Head(s)) + SumSunday(Tail(s))

\* The filter keeping an open entry as a shift that lasts to the end of its local day
RECURSIVE CompletedEntries_openUntilMidnight(_)
CompletedEntries_openUntilMidnight(s) ==
    IF s = <<>> THEN <<>>
    ELSE IF ~Falsy(Head(s).clockOut)
         THEN <<Head(s)>> \o CompletedEntries_openUntilMidnight(Tail(s))
         ELSE <<[Head(s) EXCEPT !.clockOut = LocalMidnight(Head(s).clockIn) + HoursPerDay]>>
              \o CompletedEntries_openUntilMidnight(Tail(s))

\* entries.filter((e) => e.clockOut)
RECURSIVE CompletedEntries(_)
CompletedEntries(s) ==
    IF s = <<>> THEN <<>>
    ELSE IF ~Falsy(Head(s).clockOut) THEN <<Head(s)>> \o CompletedEntries(Tail(s))
         ELSE CompletedEntries(Tail(s))

\* dayMap.get(day): the completed entries whose clockIn falls on the local date day
RECURSIVE EntriesOfDay(_, _)
EntriesOfDay(s, day) ==
    IF s = <<>> THEN <<>>
    ELSE IF toLocalDateString(Head(s).clockIn) = day
         THEN <<Head(s)>> \o EntriesOfDay(Tail(s), day)
         ELSE EntriesOfDay(Tail(s), day)

\* The daily tiers with overtime not capped at the penalty threshold: the hours past
\* dailyPenaltyOTThresholdHours count as overtime and as penalty overtime
RECURSIVE DailyTiers_otUncapped(_, _, _)
DailyTiers_otUncapped(days, completed, meta) ==
    IF days = {} THEN [baseHours |-> 0, otHours |-> 0, penaltyOTHours |-> 0]
    ELSE LET day == CHOOSE d \in days : TRUE
             rest == DailyTiers_otUncapped(days \ {day}, completed, meta)
             totalDayHours == SumHours(EntriesOfDay(completed, day))
         IN  [baseHours |-> rest.baseHours
                  + Min(totalDayHours, meta.dailyOvertimeThresholdHours),
              otHours |-> rest.otHours
                  + Max(0, totalDayHours - meta.dailyOvertimeThresholdHours),
              penaltyOTHours |-> rest.penaltyOTHours
                  + Max(0, totalDayHours - meta.dailyPenaltyOTThresholdHours)]

\* The daily tiers summed over the days of dayMap
RECURSIVE DailyTiers(_, _, _)
DailyTiers(days, completed, meta) ==
    IF days = {} THEN [baseHours |-> 0, otHours |-> 0, penaltyOTHours |-> 0]
    ELSE LET day == CHOOSE d \in days : TRUE
             rest == DailyTiers(days \ {day}, completed, meta)
             totalDayHours == SumHours(EntriesOfDay(completed, day))
         IN  [baseHours |-> rest.baseHours
                  + Min(totalDayHours, meta.dailyOvertimeThresholdHours),
              otHours |-> rest.otHours
                  + Max(0, Min(totalDayHours, meta.dailyPenaltyOTThresholdHours)
                           - meta.dailyOvertimeThresholdHours),
              penaltyOTHours |-> rest.penaltyOTHours
                  + Max(0, totalDayHours - meta.dailyPenaltyOTThresholdHours)]

\* The weekly OT adjustment capping baseHours without adding the excess to otHours
weeklyOTAdjustment_dropsExcess(t, meta) ==
    IF t.baseHours > meta.weeklyOvertimeThresholdHours
    THEN [t EXCEPT !.baseHours = meta.weeklyOvertimeThresholdHours]
    ELSE t

\* calculatePaySummary, "Apply weekly OT adjustment: move excess base hours to OT"
weeklyOTAdjustment(t, meta) ==
    IF t.baseHours > meta.weeklyOvertimeThresholdHours
    THEN LET spillover == t.baseHours - meta.weeklyOvertimeThresholdHours
         IN  [t EXCEPT !.baseHours = meta.weeklyOvertimeThresholdHours,
                       !.otHours = t.otHours + spillover]
    ELSE t

\* The weekly penalty OT adjustment taking the excess out of baseHours
weeklyPenaltyOTAdjustment_fromBase(t, meta) ==
    IF t.baseHours + t.otHours > meta.weeklyPenaltyOTThresholdHours
    THEN LET spillover == (t.baseHours + t.otHours) - meta.weeklyPenaltyOTThresholdHours
         IN  [t EXCEPT !.baseHours = t.baseHours - spillover,
                       !.penaltyOTHours = t.penaltyOTHours + spillover]
    ELSE t

\* calculatePaySummary, "Apply weekly penalty OT adjustment: move excess OT hours to
\* penalty OT"
weeklyPenaltyOTAdjustment(t, meta) ==
    IF t.baseHours + t.otHours > meta.weeklyPenaltyOTThresholdHours
    THEN LET spillover == (t.baseHours + t.otHours) - meta.weeklyPenaltyOTThresholdHours
         IN  [t EXCEPT !.otHours = t.otHours - spillover,
                       !.penaltyOTHours = t.penaltyOTHours + spillover]
    ELSE t

\* Rates are in cents, multipliers in hundredths (150 stands for 1.5); every pay
\* field is in hundredths of a cent.
calculatePaySummary(es, meta) ==
    LET completed == CompletedEntries(es)
        days == {toLocalDateString(completed[i].clockIn) : i \in 1..Len(completed)}
        daily == DailyTiers(days, completed, meta)
        nightDiffHours == SumNight(completed, meta)
        sundayHours == SumSunday(completed)
        weekly == weeklyPenaltyOTAdjustment(weeklyOTAdjustment(daily, meta), meta)
        baseHours == weekly.baseHours
        otHours == weekly.otHours
        penaltyOTHours == weekly.penaltyOTHours
        basePay == baseHours * meta.baseHourlyRate * 100
        otPay == otHours * meta.baseHourlyRate * meta.overtimeMultiplier
        penaltyOTPay == penaltyOTHours * meta.baseHourlyRate * meta.penaltyOvertimeMultiplier
        nightDiffPay == nightDiffHours * meta.nightDifferentialRate * 100
        sundayPremiumPay == sundayHours * meta.baseHourlyRate * meta.sundayPremiumPercent
    IN  [totalHours |-> baseHours + otHours + penaltyOTHours,
         baseHours |-> baseHours,
         otHours |-> otHours,
         penaltyOTHours |-> penaltyOTHours,
         nightDiffHours |-> nightDiffHours,
         sundayHours |-> sundayHours,
         basePay |-> basePay,
         otPay |-> otPay,
         penaltyOTPay |-> penaltyOTPay,
         nightDiffPay |-> nightDiffPay,
         sundayPremiumPay |-> sundayPremiumPay,
         estimatedPay |-> basePay + otPay + penaltyOTPay + nightDiffPay + sundayPremiumPay]

\* getDefaultMetaData; the night window bounds are the hours of "18:00" and "06:00"
getDefaultMetaData ==
    [baseHourlyRate |-> 2349,
     overtimeMultiplier |-> 150,
     penaltyOvertimeMultiplier |-> 200,
     nightDifferentialRate |-> 108,
     sundayPremiumPercent |-> 25,
     dailyOvertimeThresholdHours |-> 8,
     dailyPenaltyOTThresholdHours |-> 10,
     weeklyOvertimeThresholdHours |-> 40,
     weeklyPenaltyOTThresholdHours |-> 56,
     nightDiffStartTime |-> 18,
     nightDiffEndTime |-> 6]

\* A validator that sorts the array it was given in place instead of copying it
engineFrame_sortsInPlace(fn, entry, allEntries, stored) ==
    [entry |-> entry, allEntries |-> SortByClockIn(allEntries), stored |-> stored]

\* What a call of an engine function leaves behind: the entry and the collection it
\* was given and the contents of localStorage.  None of validateEntry,
\* validateNoOverlap, validateSingleOpenEntry, getShiftHours, calculateNightDiffHours,
\* calculateSundayHours and calculatePaySummary assigns to a field of its arguments,
\* changes the array it is given or writes to localStorage.
engineFrame(fn, entry, allEntries, stored) ==
    [entry |-> entry, allEntries |-> allEntries, stored |-> stored]

---------------------------------------------------------------------------
(* edit-modal.js *)

\* new Date(local).toISOString() for a datetime-local value
datetimeLocalToISO(local) == local + TimezoneOffset

NoCall == [fn |-> "none"]

---------------------------------------------------------------------------
(* cloud-sync.js.  The module state of a device is a record: db (Firebase is *)
(* configured and initialised), currentUser, unsubscribeListener (the        *)
(* realtime listener is registered), pc (where handleAuthStateChange waits: *)
(* "get" for docRef.get(), "set" for the upload of syncFromCloud, else       *)
(* "idle"), isSyncing, pendingSets (calls of syncToCloud whose docRef.set    *)
(* has not resolved) and snapshot (the document snapshot waiting to be       *)
(* handed to the listener; a later one replaces an undelivered one).        *)
(* A write of docRef.set reaches the document when it is issued; the call   *)
(* resolves later.                                                          *)

\* In-flight calls of syncToCloud per device, and entries the second device creates
MaxPendingSets == 2
MaxPeerEntries == 1

NoDoc == [exists |-> FALSE]
NoSnapshot == [pending |-> FALSE]

\* No Firebase project configured: init() returns at once
LocalOnly ==
    [db |-> FALSE, currentUser |-> Null, unsubscribeListener |-> FALSE, pc |-> "idle",
     isSyncing |-> FALSE, pendingSets |-> 0, snapshot |-> NoSnapshot]

\* init() with a configured project, nobody signed in yet
Configured == [LocalOnly EXCEPT !.db = TRUE]

\* A device as its handlers see it: its store, its module state, the document, and
\* the module state of the other device (whose listener the document's changes reach)
Device(es, s, doc, other) == [entries |-> es, sync |-> s, doc |-> doc, other |-> other]

isLoggedIn(s) == s.currentUser # Null

\* The snapshot of the document a listener is handed, and what made Firestore hand it
\* over: a docRef.set ("set") or the registration of the listener ("listen")
SnapshotOf(doc, cause) ==
    [exists |-> TRUE, entries |-> doc.entries, by |-> doc.by, cause |-> cause]

\* syncToCloud up to its await: isSyncing = true, docRef.set({entries: loadEntries()})
syncToCloud(d, who) ==
    IF ~d.sync.db \/ d.sync.currentUser = Null THEN d
    ELSE LET doc == [exists |-> TRUE, entries |-> d.entries, by |-> who]
         IN  [d EXCEPT !.sync.isSyncing = TRUE,
                       !.sync.pendingSets = @ + 1,
                       !.sync.snapshot = IF d.sync.unsubscribeListener
                                         THEN SnapshotOf(doc, "set") ELSE @,
                       !.doc = doc,
                       !.other.snapshot = IF d.other.unsubscribeListener
                                          THEN SnapshotOf(doc, "set") ELSE @]

notifyDataChanged(d, who) ==
    IF d.sync.currentUser # Null THEN syncToCloud(d, who) ELSE d

\* saveEntries that stores the sorted copy and never notifies cloud sync
saveEntriesAndNotify_storesOnly(d, es, who) == [d EXCEPT !.entries = saveEntries(es)]

\* common.js saveEntries on a device: the sorted copy is stored, then
\* CloudSyncModule.notifyDataChanged() if CloudSyncModule.isLoggedIn()
saveEntriesAndNotify(d, es, who) ==
    LET stored == [d EXCEPT !.entries = saveEntries(es)]
    IN  IF isLoggedIn(d.sync) THEN notifyDataChanged(stored, who) ELSE stored

\* startRealtimeListener: docRef.onSnapshot(...); the listener is first handed the
\* document as it is
startRealtimeListener(d) ==
    IF ~d.sync.db \/ d.sync.currentUser = Null THEN d
    ELSE [d EXCEPT !.sync.unsubscribeListener = TRUE,
                   !.sync.snapshot = IF d.doc.exists THEN SnapshotOf(d.doc, "listen")
                                     ELSE @]

\* handleAuthStateChange(user) up to the await in syncFromCloud
handleAuthStateChange(d, user) ==
    IF user # Null
    THEN [d EXCEPT !.sync.currentUser = user, !.sync.pc = "get"]
    ELSE [d EXCEPT !.sync.currentUser = Null, !.sync.unsubscribeListener = FALSE,
                   !.sync.snapshot = NoSnapshot]

\* A sign-in sync that keeps the local collection when the merge would hold two
\* open entries
syncFromCloud_rejectsTwoOpen(d, who) ==
    IF d.doc.exists
    THEN LET merged == mergeEntries(d.entries, d.doc.entries)
             openOnes == {i \in 1..Len(merged) : merged[i].clockOut = Null}
         IN  startRealtimeListener(saveEntriesAndNotify([d EXCEPT !.sync.pc = "idle"],
                 IF Cardinality(openOnes) > 1 THEN d.entries ELSE merged, who))
    ELSE syncToCloud([d EXCEPT !.sync.pc = "set"], who)

\* syncFromCloud once docRef.get() has resolved, and the rest of
\* handleAuthStateChange if nothing more is awaited
syncFromCloud(d, who) ==
    IF d.doc.exists
    THEN startRealtimeListener(
             saveEntriesAndNotify([d EXCEPT !.sync.pc = "idle"],
                                  mergeEntries(d.entries, d.doc.entries), who))
    ELSE syncToCloud([d EXCEPT !.sync.pc = "set"], who)

\* docRef.set resolves: the finally block of syncToCloud, and the rest of
\* handleAuthStateChange if it awaited this upload
setResolves(d) ==
    LET returned == [d EXCEPT !.sync.pendingSets = @ - 1, !.sync.isSyncing = FALSE]
    IN  IF d.sync.pc = "set"
        THEN startRealtimeListener([returned EXCEPT !.sync.pc = "idle"])
        ELSE returned

\* The callback of docRef.onSnapshot, handed the waiting snapshot
onSnapshot(d, who) ==
    LET taken == [d EXCEPT !.sync.snapshot = NoSnapshot]
    IN  IF d.sync.isSyncing THEN taken
        ELSE saveEntriesAndNotify(taken, d.sync.snapshot.entries, who)

\* This device and the second one
Client == Device(entries, sync, cloudDoc, peer.sync)
Peer == Device(peer.entries, peer.sync, cloudDoc, sync)

\* Ids of other devices are not this device's to hand out
PeerId(n) == MaxEntries + n

ClientBecomes(d) ==
    /\ d.sync.pendingSets <= MaxPendingSets
    /\ entries' = d.entries
    /\ sync' = d.sync
    /\ cloudDoc' = d.doc
    /\ peer' = [peer EXCEPT !.sync = d.other]

PeerBecomes(d, nid) ==
    /\ d.sync.pendingSets <= MaxPendingSets
    /\ peer' = [entries |-> d.entries, sync |-> d.sync, nextId |-> nid]
    /\ cloudDoc' = d.doc
    /\ sync' = d.other

\* saveEntries(es) called on this device
persistEntries(es) == ClientBecomes(saveEntriesAndNotify(Client, es, "client"))

---------------------------------------------------------------------------
(* data-viewer.js: the date view and the selection.  A date string            *)
(* (YYYY-MM-DD) is modelled by the instant of its local midnight.             *)

HoursPerWeek == 7 * HoursPerDay

\* getWeekStart(date): the Monday at 00:00 local time of the week of date
getWeekStart(date) ==
    LET d == LocalMidnight(date)
        day == getDay(d)
        diff == IF day = 0 THEN 0 - 6 ELSE 1 - day
    IN  d + diff * HoursPerDay

\* dateToInputValue(date): the local date of a Date
dateToInputValue(date) == LocalMidnight(date)

\* The module state of the data viewer when the page has loaded at instant 0
InitViewer ==
    [viewMode |-> "week", currentWeekStart |-> getWeekStart(0),
     customRangeStart |-> EmptyString, customRangeEnd |-> EmptyString,
     selectedEntryIds |-> {}]

\* filterEntriesByRange(entries, viewStart, viewEnd, exclusiveEnd)
filterEntriesByRange(es, viewStart, viewEnd, exclusiveEnd) ==
    SelectSeq(es, LAMBDA e : IF exclusiveEnd
                             THEN e.clockIn >= viewStart /\ e.clockIn < viewEnd
                             ELSE e.clockIn >= viewStart /\ e.clockIn <= viewEnd)

\* getExportEntries(entries, selectedIds, viewStart, viewEnd, exclusiveEnd)
getExportEntries(es, selectedIds, viewStart, viewEnd, exclusiveEnd) ==
    IF selectedIds # {}
    THEN SelectSeq(es, LAMBDA e : e.id \in selectedIds)
    ELSE filterEntriesByRange(es, viewStart, viewEnd, exclusiveEnd)

\* The view range exportToCSV and renderDataViewer compute: the custom range up to
\* 23:59:59.999 of its last day (its last whole hour), or the week from Monday 00:00
\* up to, not including, the next Monday
ViewRange(v) ==
    IF v.viewMode = "range" /\ ~Falsy(v.customRangeStart) /\ ~Falsy(v.customRangeEnd)
    THEN [start |-> v.customRangeStart,
          end |-> v.customRangeEnd + HoursPerDay - 1, exclusiveEnd |-> FALSE]
    ELSE [start |-> v.currentWeekStart,
          end |-> v.currentWeekStart + HoursPerWeek, exclusiveEnd |-> TRUE]

\* exportToCSV: the entries handed to generateCSV
exportToCSV(es, v) ==
    LET r == ViewRange(v)
    IN  getExportEntries(es, v.selectedEntryIds, r.start, r.end, r.exclusiveEnd)

\* renderDataViewer: the rows shown
viewEntries(es, v) ==
    LET r == ViewRange(v)
    IN  IF v.viewMode = "range" /\ (Falsy(v.customRangeStart) \/ Falsy(v.customRangeEnd))
        THEN <<>>
        ELSE filterEntriesByRange(es, r.start, r.end, r.exclusiveEnd)

---------------------------------------------------------------------------
(* The application: clock button, editor, deletion *)

Init ==
    /\ entries = <<>>
    /\ now = 0
    /\ nextId = 1
    /\ currentEditId = Null
    /\ call = NoCall
    /\ sync = LocalOnly
    /\ cloudDoc = NoDoc
    /\ peer = [entries |-> <<>>, sync |-> LocalOnly, nextId |-> 1]
    /\ viewer = InitViewer

\* The system clock advances
Tick ==
    /\ now < MaxNow
    /\ now' = now + 1
    /\ UNCHANGED <<entries, nextId, currentEditId, call, sync, cloudDoc, peer, viewer>>

\* time-entries.js handleClockButton: clock out the open entry, or clock in
handleClockButton ==
    LET loaded == entries
        open == getOpenEntry(loaded)
    IN  IF open # 0
        THEN /\ persistEntries([loaded EXCEPT ![open] = clockOutEntry(loaded[open], now)])
             /\ UNCHANGED <<now, nextId, currentEditId, call, viewer>>
        ELSE /\ nextId <= MaxEntries
             /\ persistEntries(Append(loaded, createEntry(nextId, now)))
             /\ nextId' = nextId + 1
             /\ UNCHANGED <<now, currentEditId, call, viewer>>

\* time-entries.js delete button: saveEntries(loadEntries().filter((e) => e.id !== id))
deleteEntry(id) ==
    /\ persistEntries(WithoutIds(entries, {id}))
    /\ UNCHANGED <<now, nextId, currentEditId, call, viewer>>

\* edit-modal.js openEditModal
openEditModal(entryId) ==
    /\ \E i \in 1..Len(entries) : entries[i].id = entryId
    /\ currentEditId' = entryId
    /\ UNCHANGED <<entries, now, nextId, call, sync, cloudDoc, peer, viewer>>

\* edit-modal.js closeEditModal
closeEditModal ==
    /\ currentEditId # Null
    /\ currentEditId' = Null
    /\ UNCHANGED <<entries, now, nextId, call, sync, cloudDoc, peer, viewer>>

\* The entry saveEditEntry builds from the form fields
updatedEntryOf(clockInLocal, clockOutLocal, notes) ==
    [id |-> currentEditId,
     clockIn |-> IF ~Falsy(clockInLocal) THEN datetimeLocalToISO(clockInLocal) ELSE EmptyString,
     clockOut |-> IF ~Falsy(clockOutLocal) THEN datetimeLocalToISO(clockOutLocal) ELSE Null,
     notes |-> notes]

\* saveEditEntry without the validateNoOverlap gate
saveEditEntry_noOverlapGate(clockInLocal, clockOutLocal, notes) ==
    LET updatedEntry == updatedEntryOf(clockInLocal, clockOutLocal, notes)
        loaded == entries
        idx == IndexOfId(loaded, currentEditId)
    IN  /\ UNCHANGED <<now, nextId, call, viewer>>
        /\ IF ~validateEntry(updatedEntry) THEN UNCHANGED <<entries, currentEditId, sync, cloudDoc, peer, viewer>>
           ELSE IF ~validateSingleOpenEntry(updatedEntry, loaded) THEN UNCHANGED <<entries, currentEditId, sync, cloudDoc, peer, viewer>>
           ELSE /\ IF idx # 0
                   THEN persistEntries([loaded EXCEPT ![idx] = updatedEntry])
                   ELSE UNCHANGED <<entries, sync, cloudDoc, peer, viewer>>
                /\ currentEditId' = Null

\* edit-modal.js saveEditEntry
saveEditEntry(clockInLocal, clockOutLocal, notes) ==
    LET updatedEntry == updatedEntryOf(clockInLocal, clockOutLocal, notes)
        loaded == entries
        idx == IndexOfId(loaded, currentEditId)
    IN  /\ UNCHANGED <<now, nextId, call, viewer>>
        /\ IF ~validateEntry(updatedEntry) THEN UNCHANGED <<entries, currentEditId, sync, cloudDoc, peer, viewer>>
           ELSE IF ~validateNoOverlap(updatedEntry, loaded) THEN UNCHANGED <<entries, currentEditId, sync, cloudDoc, peer, viewer>>
           ELSE IF ~validateSingleOpenEntry(updatedEntry, loaded) THEN UNCHANGED <<entries, currentEditId, sync, cloudDoc, peer, viewer>>
           ELSE /\ IF idx # 0
                   THEN persistEntries([loaded EXCEPT ![idx] = updatedEntry])
                   ELSE UNCHANGED <<entries, sync, cloudDoc, peer, viewer>>
                /\ currentEditId' = Null

LocalInputs == {EmptyString} \cup 0..MaxLocal
NotesInputs == {EmptyString}

Next ==
    \/ Tick
    \/ handleClockButton
    \/ \E i \in 1..Len(entries) : deleteEntry(entries[i].id)
    \/ \E i \in 1..Len(entries) : openEditModal(entries[i].id)
    \/ closeEditModal
    \/ \E ci \in LocalInputs, co \in LocalInputs, n \in NotesInputs :
           /\ currentEditId # Null
           /\ saveEditEntry(ci, co, n)

Spec == Init /\ [][Next]_vars

---------------------------------------------------------------------------
(* The application loaded with URL parameters *)

\* What params.get(name) returns: "true", another value, or null for an absent parameter
UrlValues == {"true", "1", "absent"}

\* handleUrlParams that clocks in without looking for an open entry
handleUrlParams_noOpenCheck(clockIn, clockOut) ==
    LET loaded == entries
        open == getOpenEntry(loaded)
    IN  IF clockIn = "true"
        THEN /\ nextId <= MaxEntries
             /\ persistEntries(Append(loaded, createEntry(nextId, now)))
             /\ nextId' = nextId + 1
             /\ UNCHANGED <<now, currentEditId, call, viewer>>
        ELSE IF clockOut = "true" /\ open # 0
        THEN /\ persistEntries([loaded EXCEPT ![open] = clockOutEntry(loaded[open], now)])
             /\ UNCHANGED <<now, nextId, currentEditId, call, viewer>>
        ELSE UNCHANGED vars

\* app.js handleUrlParams(search), with the values of clock-in and clock-out in search
handleUrlParams(clockIn, clockOut) ==
    LET loaded == entries
        open == getOpenEntry(loaded)
    IN  IF clockIn = "true"
        THEN IF open = 0
             THEN /\ nextId <= MaxEntries
                  /\ persistEntries(Append(loaded, createEntry(nextId, now)))
                  /\ nextId' = nextId + 1
                  /\ UNCHANGED <<now, currentEditId, call, viewer>>
             ELSE UNCHANGED vars
        ELSE IF clockOut = "true"
        THEN IF open # 0
             THEN /\ persistEntries([loaded EXCEPT ![open] = clockOutEntry(loaded[open], now)])
                  /\ UNCHANGED <<now, nextId, currentEditId, call, viewer>>
             ELSE UNCHANGED vars
        ELSE UNCHANGED vars

\* The application of Spec, loaded with any URL at any time
NextUrl ==
    \/ Next
    \/ \E clockIn \in UrlValues, clockOut \in UrlValues : handleUrlParams(clockIn, clockOut)

SpecUrl == Init /\ [][NextUrl]_vars

---------------------------------------------------------------------------
(* The data viewer: navigation, selection, row actions and the editor *)

\* Weeks the viewer is moved forward from the week of the page load
MaxWeeks == 1

IdsOfRows(rows) == {rows[i].id : i \in 1..Len(rows)}

\* A row checkbox is clicked
dvRowCheckbox(id) ==
    /\ id \in IdsOfRows(viewEntries(entries, viewer))
    /\ viewer' = [viewer EXCEPT !.selectedEntryIds =
                      IF id \in @ THEN @ \ {id} ELSE @ \cup {id}]
    /\ UNCHANGED <<entries, now, nextId, currentEditId, call, sync, cloudDoc, peer>>

\* Select All: every row shown is selected
dvSelectAll ==
    /\ viewer' = [viewer EXCEPT !.selectedEntryIds =
                      @ \cup IdsOfRows(viewEntries(entries, viewer))]
    /\ UNCHANGED <<entries, now, nextId, currentEditId, call, sync, cloudDoc, peer>>

\* Deselect All
clearSelection ==
    /\ viewer.selectedEntryIds # {}
    /\ viewer' = [viewer EXCEPT !.selectedEntryIds = {}]
    /\ UNCHANGED <<entries, now, nextId, currentEditId, call, sync, cloudDoc, peer>>

\* Previous week / next week buttons, shown in week mode
dvPrevWeek ==
    /\ viewer.viewMode = "week"
    /\ viewer.currentWeekStart > getWeekStart(0)
    /\ viewer' = [viewer EXCEPT !.selectedEntryIds = {},
                                !.currentWeekStart = @ - HoursPerWeek]
    /\ UNCHANGED <<entries, now, nextId, currentEditId, call, sync, cloudDoc, peer>>

dvNextWeek ==
    /\ viewer.viewMode = "week"
    /\ viewer.currentWeekStart < getWeekStart(0) + MaxWeeks * HoursPerWeek
    /\ viewer' = [viewer EXCEPT !.selectedEntryIds = {},
                                !.currentWeekStart = @ + HoursPerWeek]
    /\ UNCHANGED <<entries, now, nextId, currentEditId, call, sync, cloudDoc, peer>>

\* setViewMode(mode): range mode is given the current week if no range is set yet
setViewMode(mode) ==
    /\ viewer' =
          IF mode = "range" /\ (Falsy(viewer.customRangeStart) \/ Falsy(viewer.customRangeEnd))
          THEN [viewer EXCEPT !.viewMode = mode, !.selectedEntryIds = {},
                   !.customRangeStart = dateToInputValue(viewer.currentWeekStart),
                   !.customRangeEnd =
                       dateToInputValue(viewer.currentWeekStart + 6 * HoursPerDay)]
          ELSE [viewer EXCEPT !.viewMode = mode, !.selectedEntryIds = {}]
    /\ UNCHANGED <<entries, now, nextId, currentEditId, call, sync, cloudDoc, peer>>

\* The Apply button of the custom range, shown in range mode
dvRangeApply(startVal, endVal) ==
    /\ viewer.viewMode = "range"
    /\ IF Falsy(startVal) \/ Falsy(endVal) THEN UNCHANGED viewer
       ELSE viewer' = [viewer EXCEPT !.customRangeStart = startVal,
                                     !.customRangeEnd = endVal,
                                     !.selectedEntryIds = {}]
    /\ UNCHANGED <<entries, now, nextId, currentEditId, call, sync, cloudDoc, peer>>

\* The delete button of a row
dvDeleteEntry(id) ==
    /\ id \in IdsOfRows(viewEntries(entries, viewer))
    /\ viewer' = [viewer EXCEPT !.selectedEntryIds = @ \ {id}]
    /\ persistEntries(WithoutIds(entries, {id}))
    /\ UNCHANGED <<now, nextId, currentEditId, call>>

\* deleteSelected()
deleteSelected ==
    /\ viewer.selectedEntryIds # {}
    /\ viewer' = [viewer EXCEPT !.selectedEntryIds = {}]
    /\ persistEntries(WithoutIds(entries, viewer.selectedEntryIds))
    /\ UNCHANGED <<now, nextId, currentEditId, call>>

\* Dates typed into the custom range, and datetime-local values typed into the editor:
\* in the week of the page load or a week later
RangeDates == {EmptyString, dateToInputValue(0), dateToInputValue(HoursPerWeek)}
ViewerLocalInputs == {EmptyString, 0, HoursPerWeek}

NextViewer ==
    \/ handleClockButton
    \/ \E id \in IdsOfRows(entries) : dvRowCheckbox(id)
    \/ dvSelectAll
    \/ clearSelection
    \/ dvPrevWeek
    \/ dvNextWeek
    \/ \E mode \in {"week", "range"} : setViewMode(mode)
    \/ \E startVal \in RangeDates, endVal \in RangeDates : dvRangeApply(startVal, endVal)
    \/ \E id \in IdsOfRows(entries) : dvDeleteEntry(id)
    \/ deleteSelected
    \/ \E id \in IdsOfRows(viewEntries(entries, viewer)) : openEditModal(id)
    \/ closeEditModal
    \/ \E ci \in ViewerLocalInputs, co \in ViewerLocalInputs, n \in NotesInputs :
           /\ currentEditId # Null
           /\ saveEditEntry(ci, co, n)

SpecViewer == Init /\ [][NextViewer]_vars

---------------------------------------------------------------------------
(* The application with its other local writers of the store: import, clearing *)

\* Entries of a file or of the cloud document: ids as the application hands them out,
\* open or closed an hour after clockIn
ImportEntries ==
    {[id |-> id, clockIn |-> ci, clockOut |-> co, notes |-> EmptyString] :
        id \in 1..MaxEntries, ci \in 0..MaxNow, co \in {Null}} \cup
    {[id |-> id, clockIn |-> ci, clockOut |-> ci + 1, notes |-> EmptyString] :
        id \in 1..MaxEntries, ci \in 0..MaxNow}

\* What parseCSV returns for a file, or the entries of the cloud document: up to two
\* entries in any order
ImportCollections ==
    {<<>>} \cup {<<a>> : a \in ImportEntries} \cup {<<a, b>> : a, b \in ImportEntries}

\* Ids that came in from outside are not handed out again
NextIdAfter(s) ==
    IF s = <<>> THEN nextId
    ELSE Max(nextId, 1 + CHOOSE m \in {s[i].id : i \in 1..Len(s)} :
                             \A i \in 1..Len(s) : s[i].id <= m)

\* data-viewer.js importFileInput change handler, time entries: "replace" saves the
\* parsed entries, "add" saves mergeEntries(loadEntries(), parsed)
importEntries(importMode, parsed) ==
    /\ IF importMode = "replace"
       THEN persistEntries(parsed)
       ELSE persistEntries(mergeEntries(entries, parsed))
    /\ nextId' = NextIdAfter(parsed)
    /\ UNCHANGED <<now, currentEditId, call, viewer>>

\* data-viewer.js clear button: saveEntries([])
clearAllEntries ==
    /\ persistEntries(<<>>)
    /\ UNCHANGED <<now, nextId, currentEditId, call, viewer>>

\* The clock button, deletion, clearing and import, at one clock reading
NextStore ==
    \/ handleClockButton
    \/ \E i \in 1..Len(entries) : deleteEntry(entries[i].id)
    \/ clearAllEntries
    \/ \E importMode \in {"add", "replace"}, parsed \in ImportCollections :
           importEntries(importMode, parsed)

SpecStore == Init /\ [][NextStore]_vars

---------------------------------------------------------------------------
(* Two devices of one user and the Firestore document between them *)

InitSync ==
    /\ entries = <<>>
    /\ now = 0
    /\ nextId = 1
    /\ currentEditId = Null
    /\ call = NoCall
    /\ sync \in {LocalOnly, Configured}
    /\ cloudDoc = NoDoc
    /\ peer = [entries |-> <<>>, sync |-> Configured, nextId |-> 1]
    /\ viewer = InitViewer

\* The user signs in on this device: handleAuthStateChange(user)
clientSignIn ==
    /\ sync.db
    /\ sync.currentUser = Null
    /\ ClientBecomes(handleAuthStateChange(Client, 1))
    /\ UNCHANGED <<now, nextId, currentEditId, call, viewer>>

\* docRef.get() of syncFromCloud resolves on this device
clientSyncFromCloud ==
    /\ sync.pc = "get"
    /\ ClientBecomes(syncFromCloud(Client, "client"))
    /\ UNCHANGED <<now, nextId, currentEditId, call, viewer>>

\* A docRef.set of this device resolves
clientSetResolves ==
    /\ sync.pendingSets > 0
    /\ ClientBecomes(setResolves(Client))
    /\ UNCHANGED <<now, nextId, currentEditId, call, viewer>>

\* The listener of this device is handed the waiting snapshot
clientOnSnapshot ==
    /\ sync.snapshot # NoSnapshot
    /\ ClientBecomes(onSnapshot(Client, "client"))
    /\ UNCHANGED <<now, nextId, currentEditId, call, viewer>>

\* The same steps on the second device
peerSignIn ==
    /\ peer.sync.db
    /\ peer.sync.currentUser = Null
    /\ PeerBecomes(handleAuthStateChange(Peer, 1), peer.nextId)
    /\ UNCHANGED <<entries, now, nextId, currentEditId, call, viewer>>

peerSyncFromCloud ==
    /\ peer.sync.pc = "get"
    /\ PeerBecomes(syncFromCloud(Peer, "peer"), peer.nextId)
    /\ UNCHANGED <<entries, now, nextId, currentEditId, call, viewer>>

peerSetResolves ==
    /\ peer.sync.pendingSets > 0
    /\ PeerBecomes(setResolves(Peer), peer.nextId)
    /\ UNCHANGED <<entries, now, nextId, currentEditId, call, viewer>>

peerOnSnapshot ==
    /\ peer.sync.snapshot # NoSnapshot
    /\ PeerBecomes(onSnapshot(Peer, "peer"), peer.nextId)
    /\ UNCHANGED <<entries, now, nextId, currentEditId, call, viewer>>

\* time-entries.js handleClockButton on the second device
peerHandleClockButton ==
    LET loaded == peer.entries
        open == getOpenEntry(loaded)
    IN  /\ IF open # 0
           THEN PeerBecomes(saveEntriesAndNotify(Peer,
                    [loaded EXCEPT ![open] = clockOutEntry(loaded[open], now)], "peer"),
                    peer.nextId)
           ELSE /\ peer.nextId <= MaxPeerEntries
                /\ PeerBecomes(saveEntriesAndNotify(Peer,
                       Append(loaded, createEntry(PeerId(peer.nextId), now)), "peer"),
                       peer.nextId + 1)
        /\ UNCHANGED <<entries, now, nextId, currentEditId, call, viewer>>

\* The file imported: the first shift, closed after an hour
UploadFile == <<[id |-> 1, clockIn |-> 0, clockOut |-> 1, notes |-> EmptyString]>>

\* Values typed into the editor: none, the hour of the page load, the hour after
UploadLocalInputs == {EmptyString, 0, 1}

\* One device, signing in and out, with every handler that changes the entries
NextUpload ==
    \/ handleClockButton
    \/ \E i \in 1..Len(entries) : deleteEntry(entries[i].id)
    \/ clearAllEntries
    \/ \E importMode \in {"add", "replace"} : importEntries(importMode, UploadFile)
    \/ \E i \in 1..Len(entries) : openEditModal(entries[i].id)
    \/ closeEditModal
    \/ \E ci \in UploadLocalInputs, co \in UploadLocalInputs, n \in NotesInputs :
           /\ currentEditId # Null
           /\ saveEditEntry(ci, co, n)
    \/ clientSignIn
    \/ clientSyncFromCloud
    \/ clientSetResolves
    \/ clientOnSnapshot

SpecUpload == InitSync /\ [][NextUpload]_vars

NextSync ==
    \/ handleClockButton
    \/ clientSignIn
    \/ clientSyncFromCloud
    \/ clientSetResolves
    \/ clientOnSnapshot
    \/ peerSignIn
    \/ peerSyncFromCloud
    \/ peerSetResolves
    \/ peerOnSnapshot
    \/ peerHandleClockButton

SpecSync == InitSync /\ [][NextSync]_vars

\* The one local change: the user clocks in on this device, once
firstClockIn ==
    /\ nextId = 1
    /\ handleClockButton

\* Two devices on which the user signs in and clocks in once, and does nothing else
NextSyncLive ==
    \/ firstClockIn
    \/ clientSignIn
    \/ clientSyncFromCloud
    \/ clientSetResolves
    \/ clientOnSnapshot
    \/ peerSignIn
    \/ peerSyncFromCloud
    \/ peerSetResolves
    \/ peerOnSnapshot

\* Firestore resolves every docRef.get and docRef.set and hands every snapshot to the
\* listener it is waiting for; the user's own steps are under no obligation
SpecSyncLive ==
    /\ InitSync
    /\ [][NextSyncLive]_vars
    /\ WF_vars(clientSyncFromCloud)
    /\ WF_vars(clientSetResolves)
    /\ WF_vars(clientOnSnapshot)
    /\ WF_vars(peerSyncFromCloud)
    /\ WF_vars(peerSetResolves)
    /\ WF_vars(peerOnSnapshot)

---------------------------------------------------------------------------
(* The engine functions applied to bounded inputs *)

MaxInstant == 3     \* entries given to the validators have instants 0..MaxInstant
MaxShiftEnd == 50   \* shifts given to the calculators lie in the first MaxShiftEnd hours

\* Local midnight of Saturday 3 January 1970: the calculators' inputs start on a
\* Saturday, so that they cover a Saturday, a Sunday and a Monday
FirstShiftDay == 2 * HoursPerDay + TimezoneOffset

ShiftInstants == {FirstShiftDay + x : x \in 0..MaxShiftEnd}

\* Hours of the "HH:00" bounds a night window is drawn from
NightTimes == {0, 2, 6, 10, 18, 22}

TimedEntries(id) ==
    {[id |-> id, clockIn |-> ci, clockOut |-> co, notes |-> EmptyString] :
        ci \in 0..MaxInstant, co \in {Null} \cup 0..MaxInstant}

ShiftEntries ==
    {[id |-> 1, clockIn |-> ci, clockOut |-> co, notes |-> EmptyString] :
        ci \in ShiftInstants, co \in {Null} \cup ShiftInstants}

\* Objects validateEntry may be handed: any mix of well-typed and ill-typed fields
AnyEntries ==
    {NullEntry} \cup
    [id : {Null, EmptyString, NumberValue, 1},
     clockIn : {Null, Undefined, EmptyString, NotADate} \cup 0..MaxInstant,
     clockOut : {Null, Undefined, EmptyString, NotADate} \cup 0..MaxInstant,
     notes : {Undefined, Null, NumberValue, EmptyString, 0}]

\* Shifts handed to calculatePaySummary: morning and evening starts on two days
SummaryEntries(id) ==
    {[id |-> id, clockIn |-> FirstShiftDay + ci, clockOut |-> co, notes |-> EmptyString] :
        ci \in {8, 20, HoursPerDay + 8}, co \in {Null}} \cup
    {[id |-> id, clockIn |-> FirstShiftDay + ci, clockOut |-> FirstShiftDay + ci + d,
      notes |-> EmptyString] :
        ci \in {8, 20, HoursPerDay + 8}, d \in {0, 7, 9, 11}}

\* The store the engine functions run beside: one shift in progress
EngineStore == <<createEntry(1, 0)>>

InitEngine ==
    /\ entries = EngineStore
    /\ now = 0
    /\ nextId = 2
    /\ currentEditId = Null
    /\ call = NoCall
    /\ sync = LocalOnly
    /\ cloudDoc = NoDoc
    /\ peer = [entries |-> <<>>, sync |-> LocalOnly, nextId |-> 1]
    /\ viewer = InitViewer

\* One call fn(entry, allEntries, meta) returning ret
EngineCall(fn, entry, allEntries, meta, ret) ==
    LET after == engineFrame(fn, entry, allEntries, entries)
    IN  /\ call' = [fn |-> fn, entry |-> entry, allEntries |-> allEntries, meta |-> meta,
                    ret |-> ret,
                    after |-> [entry |-> after.entry, allEntries |-> after.allEntries]]
        /\ entries' = after.stored
        /\ UNCHANGED <<now, nextId, currentEditId, sync, cloudDoc, peer, viewer>>

callValidateEntry ==
    /\ call = NoCall
    /\ \E e \in AnyEntries :
        EngineCall("validateEntry", e, <<>>, getDefaultMetaData, validateEntry(e))

callValidateNoOverlap ==
    /\ call = NoCall
    /\ \E a \in TimedEntries(1), b \in TimedEntries(2) :
        \E all \in {<<a, b>>, <<b, a>>} :
            \E e \in {a, b} :
                EngineCall("validateNoOverlap", e, all, getDefaultMetaData,
                           validateNoOverlap(e, all))

callValidateSingleOpenEntry ==
    /\ call = NoCall
    /\ \E a \in TimedEntries(1), b \in TimedEntries(2), c \in TimedEntries(3) :
        \E all \in {<<a>>, <<a, b>>, <<a, b, c>>} :
            \E i \in 1..Len(all) :
                EngineCall("validateSingleOpenEntry", all[i], all, getDefaultMetaData,
                           validateSingleOpenEntry(all[i], all))

callGetShiftHours ==
    /\ call = NoCall
    /\ \E e \in TimedEntries(1) :
        EngineCall("getShiftHours", e, <<>>, getDefaultMetaData, getShiftHours(e))

callCalculateNightDiffHours ==
    /\ call = NoCall
    /\ \E e \in ShiftEntries, s \in NightTimes, n \in NightTimes :
        LET meta == [getDefaultMetaData EXCEPT !.nightDiffStartTime = s,
                                               !.nightDiffEndTime = n]
        IN  EngineCall("calculateNightDiffHours", e, <<>>, meta,
                       calculateNightDiffHours(e, meta))

callCalculateSundayHours ==
    /\ call = NoCall
    /\ \E e \in ShiftEntries :
        EngineCall("calculateSundayHours", e, <<>>, getDefaultMetaData,
                   calculateSundayHours(e))

callCalculatePaySummary ==
    /\ call = NoCall
    /\ \E a \in SummaryEntries(1), b \in SummaryEntries(2) :
        \E all \in {<<>>, <<a>>, <<a, b>>} :
            EngineCall("calculatePaySummary", NullEntry, all, getDefaultMetaData,
                       calculatePaySummary(all, getDefaultMetaData))

\* Entries of TimedEntries(id) that validateEntry accepts
ValidTimedEntries(id) == {e \in TimedEntries(id) : validateEntry(e)}

\* validateNoOverlap and validateSingleOpenEntry applied to every entry of a collection
\* of structurally valid entries with distinct ids, in any order; ret[i] is what the
\* two checks return for the i-th entry
callValidatorsOnEach ==
    /\ call = NoCall
    /\ \E a \in ValidTimedEntries(1), b \in ValidTimedEntries(2), c \in ValidTimedEntries(3) :
        \E all \in {<<>>, <<a>>, <<a, b>>, <<a, b, c>>} :
            EngineCall("validateEach", NullEntry, all, getDefaultMetaData,
                       [i \in 1..Len(all) |->
                           /\ validateNoOverlap(all[i], all)
                           /\ validateSingleOpenEntry(all[i], all)])

NextEngine ==
    \/ callValidatorsOnEach
    \/ callValidateEntry
    \/ callValidateNoOverlap
    \/ callValidateSingleOpenEntry
    \/ callGetShiftHours
    \/ callCalculateNightDiffHours
    \/ callCalculateSundayHours
    \/ callCalculatePaySummary

SpecEngine == InitEngine /\ [][NextEngine]_vars

---------------------------------------------------------------------------
(* mergeEntries applied to bounded collections *)

MaxMergeId == 2         \* merged entries have ids 1..MaxMergeId
MaxMergeInstant == 1    \* and clockIn instants 0..MaxMergeInstant

\* Entries handed to mergeEntries: open, or closed an hour after clockIn
MergeEntries ==
    {[id |-> id, clockIn |-> ci, clockOut |-> co, notes |-> EmptyString] :
        id \in 1..MaxMergeId, ci \in 0..MaxMergeInstant, co \in {Null}} \cup
    {[id |-> id, clockIn |-> ci, clockOut |-> ci + 1, notes |-> EmptyString] :
        id \in 1..MaxMergeId, ci \in 0..MaxMergeInstant}

\* Collections of up to two entries, in any order, ids repeated or not
MergeCollections ==
    {<<>>} \cup {<<a>> : a \in MergeEntries} \cup {<<a, b>> : a, b \in MergeEntries}

callMergeEntries ==
    /\ call = NoCall
    /\ \E existing \in MergeCollections, incoming \in MergeCollections :
        /\ call' = [fn |-> "mergeEntries", existing |-> existing, incoming |-> incoming,
                    ret |-> mergeEntries(existing, incoming)]
        /\ UNCHANGED <<entries, now, nextId, currentEditId, sync, cloudDoc, peer, viewer>>

NextMerge == callMergeEntries

SpecMerge == InitEngine /\ [][NextMerge]_vars

---------------------------------------------------------------------------
(* calculatePaySummary applied to the entries of a work week *)

MaxDays == 6        \* a week's collection has shifts on up to MaxDays consecutive days
MaxDayHours == 12   \* the shifts of one day total up to MaxDayHours hours

\* 08:00 local time on the d-th day, the first day being Saturday 3 January 1970
DayStart(d) == FirstShiftDay + (d - 1) * HoursPerDay + 8

\* The closed shifts of a week: days 1..k, m hours on the first day and n hours on
\* each later day; with split the first day is worked as two adjacent shifts
WeekShifts(k, m, n, split) ==
    LET first == IF k = 0 THEN <<>>
                 ELSE IF split
                      THEN <<[id |-> 1, clockIn |-> DayStart(1),
                              clockOut |-> DayStart(1) + (m \div 2), notes |-> EmptyString],
                             [id |-> k + 1, clockIn |-> DayStart(1) + (m \div 2),
                              clockOut |-> DayStart(1) + m, notes |-> EmptyString]>>
                      ELSE <<[id |-> 1, clockIn |-> DayStart(1),
                              clockOut |-> DayStart(1) + m, notes |-> EmptyString]>>
        later == [i \in 1..(IF k = 0 THEN 0 ELSE k - 1) |->
                     [id |-> i + 1, clockIn |-> DayStart(i + 1),
                      clockOut |-> DayStart(i + 1) + n, notes |-> EmptyString]]
    IN  first \o later

\* The week's collection, with the shift in progress on the day after when open
WeekEntries(k, m, n, split, open) ==
    IF open THEN Append(WeekShifts(k, m, n, split), createEntry(k + 2, DayStart(k + 1)))
    ELSE WeekShifts(k, m, n, split)

\* <<daily overtime, daily penalty, weekly overtime, weekly penalty>> thresholds: the
\* defaults, lower ones that days and weeks of MaxDayHours and MaxDays reach, and ones
\* whose penalty threshold is below the overtime threshold (the settings form saves
\* any numbers)
ThresholdChoices ==
    {<<8, 10, 40, 56>>, <<8, 10, 40, 44>>, <<8, 10, 20, 30>>, <<4, 6, 40, 56>>,
     <<0, 0, 0, 0>>, <<8, 4, 40, 56>>, <<8, 10, 40, 20>>}

PayMetas ==
    {[getDefaultMetaData EXCEPT !.dailyOvertimeThresholdHours = t[1],
                                !.dailyPenaltyOTThresholdHours = t[2],
                                !.weeklyOvertimeThresholdHours = t[3],
                                !.weeklyPenaltyOTThresholdHours = t[4]] :
        t \in ThresholdChoices}

callCalculatePaySummaryOfWeek ==
    /\ call = NoCall
    /\ \E k \in 0..MaxDays, m \in 0..MaxDayHours, n \in 0..MaxDayHours,
          split \in BOOLEAN, open \in BOOLEAN, meta \in PayMetas :
        LET all == WeekEntries(k, m, n, split, open)
        IN  EngineCall("calculatePaySummary", NullEntry, all, meta,
                       calculatePaySummary(all, meta))

NextPay == callCalculatePaySummaryOfWeek

SpecPay == InitEngine /\ [][NextPay]_vars

---------------------------------------------------------------------------
(* The data model's invariants, stated over a collection *)

\* The interval of an entry is [clockIn, clockOut), or [clockIn, +infinity) when open
IsOpen(e) == e.clockOut = Null

\* Two intervals share an instant: the later start is before the earlier end
SharePositiveTime(a, b) ==
    LET start == IF a.clockIn >= b.clockIn THEN a.clockIn ELSE b.clockIn
    IN  /\ (IsOpen(a) \/ start < a.clockOut)
        /\ (IsOpen(b) \/ start < b.clockOut)

PairwiseDisjoint(es) ==
    \A i, j \in 1..Len(es) : i # j => ~SharePositiveTime(es[i], es[j])

AtMostOneOpen(es) == Cardinality({i \in 1..Len(es) : IsOpen(es[i])}) <= 1

OpenIsLatest(es) ==
    \A i, j \in 1..Len(es) : IsOpen(es[i]) /\ i # j => es[j].clockIn <= es[i].clockIn

ClockOutAfterClockIn(es) ==
    \A i \in 1..Len(es) : ~IsOpen(es[i]) => es[i].clockOut > es[i].clockIn

\* C1: after any sequence of clock-in, clock-out, accepted edit and delete from the
\* empty store, no two persisted entries have overlapping intervals (an open entry
\* extends to +infinity; intervals that only touch do not overlap).
C1_NoTwoEntriesOverlap == PairwiseDisjoint(entries)

\* C2: after any such sequence at most one persisted entry is open, and no other
\* entry has a clockIn later than the open entry's.
C2_SingleOpenAndLatest == AtMostOneOpen(entries) /\ OpenIsLatest(entries)

\* C3: after any such sequence every persisted entry that has a clockOut has it
\* strictly after its clockIn, entries closed by the clock-out operation included.
C3_ClockOutStrictlyAfterClockIn == ClockOutAfterClockIn(entries)

\* The three checks of the editor, against the stored collection
PassesAllChecks(entry, stored) ==
    /\ validateEntry(entry)
    /\ validateNoOverlap(entry, stored)
    /\ validateSingleOpenEntry(entry, stored)

\* C4: an edit submitted through the editor is persisted only if the edited entry
\* passes structural validity, no overlap and single-open consistency against the
\* currently stored collection; if any check fails the stored collection is left
\* exactly as it was.
C4_EditPersistedOnlyIfAllChecksPass ==
    [][\/ entries' = entries
       \/ \A ci \in LocalInputs, co \in LocalInputs, n \in NotesInputs :
              saveEditEntry(ci, co, n) =>
                  PassesAllChecks(updatedEntryOf(ci, co, n), entries)]_vars

\* An accepted edit has been persisted: the stored entry ends in the future, which
\* neither the clock button nor a deletion can produce.
C4_Witness ==
    /\ currentEditId = Null
    /\ \E i \in 1..Len(entries) : ~IsOpen(entries[i]) /\ entries[i].clockOut > now

---------------------------------------------------------------------------
(* Claims about the engine functions, under SpecEngine *)

\* The other entry of a two-entry collection
OtherOf(entry, allEntries) ==
    IF allEntries[1].id = entry.id THEN allEntries[2] ELSE allEntries[1]

\* One entry's end is the other's start
TouchAtBoundary(a, b) ==
    \/ ~IsOpen(a) /\ a.clockOut = b.clockIn
    \/ ~IsOpen(b) /\ b.clockOut = a.clockIn

\* C5: for any two entries A and B (distinct ids), if their intervals only touch at
\* a boundary, hasNoOverlap returns true when checking A and when checking B; if
\* they share a positive amount of time (a missing end counting as +infinity), it
\* returns false when checking A and when checking B.
C5_TouchingPassesOverlappingFails ==
    call.fn = "validateNoOverlap" =>
        LET a == call.entry
            b == OtherOf(call.entry, call.allEntries)
        IN  /\ TouchAtBoundary(a, b) => call.ret = TRUE
            /\ SharePositiveTime(a, b) => call.ret = FALSE

C5_Witness ==
    /\ call.fn = "validateNoOverlap"
    /\ TouchAtBoundary(call.entry, OtherOf(call.entry, call.allEntries))
    /\ validateEntry(call.entry)
    /\ validateEntry(OtherOf(call.entry, call.allEntries))
    /\ call.ret = TRUE

\* C6: isSingleOpenConsistent returns true for every entry that has a clockOut, and
\* for an open entry returns false exactly when some other entry of the collection
\* has a clockIn strictly later; so with two open entries in one collection the
\* check fails for the earlier one.
C6_SingleOpenConsistent ==
    call.fn = "validateSingleOpenEntry" =>
        LET e == call.entry
            all == call.allEntries
            laterOther == \E i \in 1..Len(all) :
                              all[i].id # e.id /\ all[i].clockIn > e.clockIn
        IN  /\ ~IsOpen(e) => call.ret = TRUE
            /\ IsOpen(e) => (call.ret = FALSE <=> laterOther)
            /\ \A i \in 1..Len(all) :
                   IsOpen(e) /\ IsOpen(all[i]) /\ all[i].clockIn > e.clockIn
                       => call.ret = FALSE

C6_Witness ==
    /\ call.fn = "validateSingleOpenEntry"
    /\ IsOpen(call.entry)
    /\ \E i \in 1..Len(call.allEntries) :
           /\ IsOpen(call.allEntries[i])
           /\ call.allEntries[i].clockIn > call.entry.clockIn
    /\ call.ret = FALSE

\* The clauses of structural validity, read off the data model
IdNonEmpty(e) == e.id >= 1
ClockInParses(e) == e.clockIn >= 0
ClockOutPresent(e) == e.clockOut \notin {Null, Undefined, EmptyString}
ClockOutParsesAfterClockIn(e) == e.clockOut >= 0 /\ e.clockOut > e.clockIn
NotesPresent(e) == e.notes # Undefined
NotesIsText(e) == e.notes >= 0 \/ e.notes = EmptyString

\* C7: isStructurallyValid returns true exactly when the id is non-empty, clockIn
\* parses to a valid instant, clockOut (if present) parses and is strictly greater
\* than clockIn, and notes (if present) is text; it always returns a boolean.
C7_StructurallyValidExactly ==
    call.fn = "validateEntry" =>
        /\ call.ret \in BOOLEAN
        /\ call.ret = TRUE <=>
               /\ call.entry # NullEntry
               /\ IdNonEmpty(call.entry)
               /\ ClockInParses(call.entry)
               /\ ClockOutPresent(call.entry) => ClockOutParsesAfterClockIn(call.entry)
               /\ NotesPresent(call.entry) => NotesIsText(call.entry)

C7_Witness ==
    /\ call.fn = "validateEntry"
    /\ call.entry # NullEntry
    /\ IdNonEmpty(call.entry)
    /\ ClockInParses(call.entry)
    /\ ClockOutPresent(call.entry)
    /\ call.entry.clockOut = call.entry.clockIn
    /\ call.ret = FALSE

EngineFunctions ==
    {"validateEntry", "validateNoOverlap", "validateSingleOpenEntry", "getShiftHours",
     "calculateNightDiffHours", "calculateSundayHours", "calculatePaySummary"}

C9_HoursZeroIffOpen ==
    call.fn = "getShiftHours" => (call.ret = 0 <=> Falsy(call.entry.clockOut))

\* C9 as amended: for all entries, hours(entry) equals 0 if and only if the entry's
\* clockOut is absent or equal to its clockIn.
C9_HoursZeroIffOpenOrZeroLength ==
    call.fn = "getShiftHours" =>
        (call.ret = 0 <=>
            Falsy(call.entry.clockOut) \/ call.entry.clockOut = call.entry.clockIn)

C9_Witness ==
    /\ call.fn = "getShiftHours"
    /\ ~Falsy(call.entry.clockOut)
    /\ call.entry.clockOut = call.entry.clockIn
    /\ call.ret = 0

\* The local hour of day of an instant
LocalHourOfDay(t) == (t - TimezoneOffset) % HoursPerDay

\* The nightly window as a set of hours of the day: from start up to end, past
\* midnight when start is after end
InNightWindow(h, start, end) ==
    IF start > end THEN h >= start \/ h < end ELSE start <= h /\ h < end

\* Length of the part of [clockIn, clockOut) inside the nightly window, every hour
\* counted once
NightWindowLength(e, meta) ==
    Cardinality({t \in e.clockIn..(e.clockOut - 1) :
        InNightWindow(LocalHourOfDay(t), meta.nightDiffStartTime, meta.nightDiffEndTime)})

\* C10: for any closed entry and any night window (wrapping past midnight or not),
\* nightHours equals the total length of the part of [clockIn, clockOut) inside the
\* nightly window on each local day, every instant counted at most once and none
\* left out; window 18:00-06:00 with shift 18:00 to 06:00 next day gives 12, and
\* window 02:00-10:00 with shift 00:00-12:00 gives 8.
C10_NightHoursIsWindowLength ==
    call.fn = "calculateNightDiffHours" /\ ~IsOpen(call.entry) =>
        LET e == call.entry
            start == call.meta.nightDiffStartTime
            end == call.meta.nightDiffEndTime
        IN  /\ call.ret = NightWindowLength(e, call.meta)
            /\ (start = 18 /\ end = 6 /\ e.clockIn = FirstShiftDay + 18
                   /\ e.clockOut = FirstShiftDay + HoursPerDay + 6) => call.ret = 12
            /\ (start = 2 /\ end = 10 /\ e.clockIn = FirstShiftDay
                   /\ e.clockOut = FirstShiftDay + 12) => call.ret = 8

\* The overnight shift 18:00 to 06:00 against the wrapping window 18:00-06:00
C10_Witness ==
    /\ call.fn = "calculateNightDiffHours"
    /\ call.meta.nightDiffStartTime = 18
    /\ call.meta.nightDiffEndTime = 6
    /\ call.entry.clockIn = FirstShiftDay + 18
    /\ call.entry.clockOut = FirstShiftDay + HoursPerDay + 6
    /\ call.ret = 12

\* The closed entry with the interval [a, b)
IntervalEntry(a, b) == [id |-> 1, clockIn |-> a, clockOut |-> b, notes |-> EmptyString]

\* C11: nightHours and sundayHours are additive over partition: for any closed
\* interval [a, c) and any instant b with a < b < c, the value computed for [a, c)
\* equals the sum of the values computed separately for [a, b) and [b, c).
C11_AdditiveOverPartition ==
    LET a == call.entry.clockIn
        c == call.entry.clockOut
    IN  /\ (call.fn = "calculateNightDiffHours" /\ ~IsOpen(call.entry)) =>
               \A b \in (a + 1)..(c - 1) :
                   call.ret = calculateNightDiffHours(IntervalEntry(a, b), call.meta)
                              + calculateNightDiffHours(IntervalEntry(b, c), call.meta)
        /\ (call.fn = "calculateSundayHours" /\ ~IsOpen(call.entry)) =>
               \A b \in (a + 1)..(c - 1) :
                   call.ret = calculateSundayHours(IntervalEntry(a, b))
                              + calculateSundayHours(IntervalEntry(b, c))

\* A shift from Saturday 20:00 to Sunday 04:00, which splits at midnight into a part
\* with no Sunday hours and a part with four
C11_Witness ==
    /\ call.fn = "calculateSundayHours"
    /\ call.entry.clockIn = FirstShiftDay + 20
    /\ call.entry.clockOut = FirstShiftDay + HoursPerDay + 4
    /\ call.ret = 4
    /\ calculateSundayHours(IntervalEntry(FirstShiftDay + 20, FirstShiftDay + HoursPerDay)) = 0

\* The local weekday of an instant, 0 for Sunday
LocalWeekday(t) == (4 + ((t - TimezoneOffset) \div HoursPerDay)) % 7

\* Length of the part of [clockIn, clockOut) that falls on a local Sunday
SundayLength(e) ==
    Cardinality({t \in e.clockIn..(e.clockOut - 1) : LocalWeekday(t) = 0})

\* C12: for any closed entry, sundayHours equals the length of the part of
\* [clockIn, clockOut) that falls on a local Sunday: a shift that crosses midnight
\* into or out of a Sunday contributes only its Sunday portion, and a shift that
\* touches no Sunday contributes 0.
C12_SundayHoursIsSundayPortion ==
    (call.fn = "calculateSundayHours" /\ ~IsOpen(call.entry)) =>
        LET e == call.entry
        IN  /\ call.ret = SundayLength(e)
            /\ (\A t \in e.clockIn..(e.clockOut - 1) : LocalWeekday(t) # 0) => call.ret = 0

\* A shift from Sunday 20:00 to Monday 04:00: out of a Sunday, four hours count
C12_Witness ==
    /\ call.fn = "calculateSundayHours"
    /\ call.entry.clockIn = FirstShiftDay + HoursPerDay + 20
    /\ call.entry.clockOut = FirstShiftDay + 2 * HoursPerDay + 2
    /\ LocalWeekday(call.entry.clockIn) = 0
    /\ LocalWeekday(call.entry.clockOut) = 1
    /\ call.ret = 4

---------------------------------------------------------------------------
(* Claims about calculatePaySummary, under SpecPay *)

\* A collection with every open entry removed
WithoutOpenEntries(s) == SelectSeq(s, LAMBDA e : ~IsOpen(e))

\* C13: open entries are excluded entirely from pay computation: for any collection,
\* summarize returns the same summary as it returns for that collection with every
\* open entry removed.
C13_OpenEntriesExcluded ==
    call.fn = "calculatePaySummary" =>
        call.ret = calculatePaySummary(WithoutOpenEntries(call.allEntries), call.meta)

\* A week of shifts with pay, summarized with a shift in progress beside them
C13_Witness ==
    /\ call.fn = "calculatePaySummary"
    /\ \E i \in 1..Len(call.allEntries) : IsOpen(call.allEntries[i])
    /\ Len(WithoutOpenEntries(call.allEntries)) >= 2
    /\ call.ret.estimatedPay > 0

\* The hours of the closed shifts of a collection
RECURSIVE ClosedHours(_)
ClosedHours(s) ==
    IF s = <<>> THEN 0
    ELSE (IF IsOpen(Head(s)) THEN 0 ELSE Head(s).clockOut - Head(s).clockIn)
         + ClosedHours(Tail(s))

\* Every closed shift of the collection starts on one local calendar day
SingleDay(s) ==
    LET closed == WithoutOpenEntries(s)
    IN  /\ closed # <<>>
        /\ \A i, j \in 1..Len(closed) :
               (closed[i].clockIn - TimezoneOffset) \div HoursPerDay
                   = (closed[j].clockIn - TimezoneOffset) \div HoursPerDay

\* C14: for a single local calendar day whose closed shifts total h hours (weekly
\* thresholds not reached): baseHours = min(h, dailyOvertimeThreshold), otHours =
\* max(0, min(h, dailyPenaltyOTThreshold) - dailyOvertimeThreshold), penaltyOTHours =
\* max(0, h - dailyPenaltyOTThreshold); with thresholds 8/10 a 9-hour day gives 8/1/0
\* and an 11-hour day gives 8/2/1.
C14_DailyTiersOfSingleDay ==
    (call.fn = "calculatePaySummary" /\ SingleDay(call.allEntries)) =>
        LET h == ClosedHours(call.allEntries)
            meta == call.meta
            base == Min(h, meta.dailyOvertimeThresholdHours)
            ot == Max(0, Min(h, meta.dailyPenaltyOTThresholdHours)
                         - meta.dailyOvertimeThresholdHours)
            penalty == Max(0, h - meta.dailyPenaltyOTThresholdHours)
            weeklyNotReached == /\ base <= meta.weeklyOvertimeThresholdHours
                                /\ base + ot <= meta.weeklyPenaltyOTThresholdHours
            defaults == /\ meta.dailyOvertimeThresholdHours = 8
                        /\ meta.dailyPenaltyOTThresholdHours = 10
        IN  weeklyNotReached =>
                /\ call.ret.baseHours = base
                /\ call.ret.otHours = ot
                /\ call.ret.penaltyOTHours = penalty
                /\ (defaults /\ h = 9) =>
                       /\ call.ret.baseHours = 8
                       /\ call.ret.otHours = 1
                       /\ call.ret.penaltyOTHours = 0
                /\ (defaults /\ h = 11) =>
                       /\ call.ret.baseHours = 8
                       /\ call.ret.otHours = 2
                       /\ call.ret.penaltyOTHours = 1

\* An 11-hour day worked as two shifts, with the default thresholds
C14_Witness ==
    /\ call.fn = "calculatePaySummary"
    /\ SingleDay(call.allEntries)
    /\ Len(WithoutOpenEntries(call.allEntries)) = 2
    /\ ClosedHours(call.allEntries) = 11
    /\ call.meta = getDefaultMetaData
    /\ call.ret.baseHours = 8
    /\ call.ret.otHours = 2
    /\ call.ret.penaltyOTHours = 1

\* The daily tiers of a collection, summed over its days, before the weekly steps
DailyTiersOf(s, meta) ==
    LET completed == WithoutOpenEntries(s)
        days == {toLocalDateString(completed[i].clockIn) : i \in 1..Len(completed)}
    IN  DailyTiers(days, completed, meta)

\* The collection is k closed shifts of n hours each, on k different local days
DaysOfHours(s, k, n) ==
    /\ Len(s) = k
    /\ \A i \in 1..k : ~IsOpen(s[i]) /\ s[i].clockOut - s[i].clockIn = n
    /\ \A i, j \in 1..k :
           i # j => toLocalDateString(s[i].clockIn) # toLocalDateString(s[j].clockIn)

\* C15: weekly overtime spillover: in every summary baseHours is at most
\* weeklyOvertimeThresholdHours, and any excess of the daily-tiered base hours over
\* that threshold is added to otHours, also when every single day is under the daily
\* threshold (six 7-hour days give baseHours=40, otHours=2).
C15_WeeklyOvertimeSpillover ==
    call.fn = "calculatePaySummary" =>
        LET meta == call.meta
            daily == DailyTiersOf(call.allEntries, meta)
            excess == Max(0, daily.baseHours - meta.weeklyOvertimeThresholdHours)
            toPenalty == call.ret.penaltyOTHours - daily.penaltyOTHours
        IN  /\ call.ret.baseHours <= meta.weeklyOvertimeThresholdHours
            /\ call.ret.baseHours = daily.baseHours - excess
            /\ call.ret.otHours + toPenalty = daily.otHours + excess
            /\ daily.baseHours + daily.otHours <= meta.weeklyPenaltyOTThresholdHours
                   => call.ret.otHours = daily.otHours + excess
            /\ (meta = getDefaultMetaData /\ DaysOfHours(call.allEntries, 6, 7)) =>
                   /\ call.ret.baseHours = 40
                   /\ call.ret.otHours = 2

\* Six 7-hour days with the default thresholds
C15_Witness ==
    /\ call.fn = "calculatePaySummary"
    /\ call.meta = getDefaultMetaData
    /\ DaysOfHours(call.allEntries, 6, 7)
    /\ DailyTiersOf(call.allEntries, call.meta).otHours = 0
    /\ call.ret.baseHours = 40
    /\ call.ret.otHours = 2

\* C16: weekly penalty-overtime spillover is evaluated after the weekly overtime
\* spillover: in every summary baseHours + otHours is at most
\* weeklyPenaltyOTThresholdHours, and the excess is taken out of otHours and added to
\* penaltyOTHours.
C16_WeeklyPenaltySpillover ==
    call.fn = "calculatePaySummary" =>
        LET meta == call.meta
            daily == DailyTiersOf(call.allEntries, meta)
            toOvertime == Max(0, daily.baseHours - meta.weeklyOvertimeThresholdHours)
            baseAfter == daily.baseHours - toOvertime
            otAfter == daily.otHours + toOvertime
            excess == Max(0, baseAfter + otAfter - meta.weeklyPenaltyOTThresholdHours)
        IN  /\ call.ret.baseHours + call.ret.otHours <= meta.weeklyPenaltyOTThresholdHours
            /\ call.ret.baseHours = baseAfter
            /\ call.ret.otHours = otAfter - excess
            /\ call.ret.penaltyOTHours = daily.penaltyOTHours + excess

\* A week in which both weekly steps move hours: base hours over the weekly overtime
\* threshold, and base plus overtime over the weekly penalty threshold
C16_Witness ==
    /\ call.fn = "calculatePaySummary"
    /\ LET daily == DailyTiersOf(call.allEntries, call.meta)
       IN  /\ daily.baseHours > call.meta.weeklyOvertimeThresholdHours
           /\ daily.baseHours + daily.otHours > call.meta.weeklyPenaltyOTThresholdHours
           /\ call.ret.penaltyOTHours > daily.penaltyOTHours
    /\ call.ret.otHours > 0
    /\ call.ret.baseHours + call.ret.otHours = call.meta.weeklyPenaltyOTThresholdHours

\* The fields of a summary
SummaryFields ==
    {"totalHours", "baseHours", "otHours", "penaltyOTHours", "nightDiffHours",
     "sundayHours", "basePay", "otPay", "penaltyOTPay", "nightDiffPay",
     "sundayPremiumPay", "estimatedPay"}

\* Every entry of the collection is open or a zero-duration shift
OnlyOpenOrZeroDuration(s) ==
    \A i \in 1..Len(s) : IsOpen(s[i]) \/ s[i].clockOut = s[i].clockIn

\* C17: summarize never fails on well-typed input, and for an empty collection, a
\* collection of only open entries, or a collection of only zero-duration shifts it
\* returns a summary in which every hour and pay field, including estimatedPay, is 0.
C17_DegenerateInputsGiveZero ==
    call.fn = "calculatePaySummary" =>
        /\ DOMAIN call.ret = SummaryFields
        /\ \A f \in SummaryFields : call.ret[f] \in Int
        /\ OnlyOpenOrZeroDuration(call.allEntries) =>
               \A f \in SummaryFields : call.ret[f] = 0

\* Zero-duration shifts on a Saturday and a Sunday, under thresholds of zero
C17_Witness ==
    /\ call.fn = "calculatePaySummary"
    /\ Len(call.allEntries) >= 2
    /\ \A i \in 1..Len(call.allEntries) :
           ~IsOpen(call.allEntries[i])
           /\ call.allEntries[i].clockOut = call.allEntries[i].clockIn
    /\ \E i \in 1..Len(call.allEntries) : LocalWeekday(call.allEntries[i].clockIn) = 0
    /\ call.meta.dailyOvertimeThresholdHours = 0
    /\ call.ret.estimatedPay = 0

---------------------------------------------------------------------------
(* Claims about mergeEntries, under SpecMerge *)

\* The ids occurring in a collection
IdsOf(s) == {s[i].id : i \in 1..Len(s)}

\* The records of a collection with the given id
RecordsOf(s, id) == {s[i] : i \in {j \in 1..Len(s) : s[j].id = id}}

\* The last record of a collection with the given id
LastRecordOf(s, id) ==
    s[CHOOSE i \in 1..Len(s) : s[i].id = id /\ \A j \in (i + 1)..Len(s) : s[j].id # id]

\* C18: merge(existing, incoming) returns exactly one record per distinct id
\* occurring in either input; for an id present on both sides the returned record is
\* the incoming version, and for an id present on one side only it is that side's
\* record.
C18_MergeOneRecordPerIdIncomingWins ==
    call.fn = "mergeEntries" =>
        LET ret == call.ret
            existing == call.existing
            incoming == call.incoming
        IN  /\ IdsOf(ret) = IdsOf(existing) \cup IdsOf(incoming)
            /\ \A id \in IdsOf(ret) : Cardinality({i \in 1..Len(ret) : ret[i].id = id}) = 1
            /\ \A i \in 1..Len(ret) :
                   IF ret[i].id \in IdsOf(incoming)
                   THEN ret[i] = LastRecordOf(incoming, ret[i].id)
                   ELSE ret[i] = LastRecordOf(existing, ret[i].id)

\* An id stored on both sides with different records, beside an id of one side only
C18_Witness ==
    /\ call.fn = "mergeEntries"
    /\ \E id \in IdsOf(call.existing) \cap IdsOf(call.incoming) :
           /\ RecordsOf(call.existing, id) \cap RecordsOf(call.incoming, id) = {}
           /\ RecordsOf(call.ret, id) = RecordsOf(call.incoming, id)
    /\ IdsOf(call.existing) \ IdsOf(call.incoming) # {}
    /\ Len(call.ret) = 2

---------------------------------------------------------------------------
(* Claims about the stored sequence, under SpecStore *)

\* Ascending by clockIn
IsSortedByClockIn(s) == \A i \in 1..(Len(s) - 1) : s[i].clockIn <= s[i + 1].clockIn

NoIdTwice(s) == \A i, j \in 1..Len(s) : s[i].id = s[j].id => i = j

\* C20: in an 'Add to Existing' (merge) import, any imported entry whose id already
\* exists locally is skipped: after the import the stored record for that id is the
\* one that was stored before the import, and no id occurs twice.
C20_AddImportSkipsExistingIds ==
    [][\A parsed \in ImportCollections :
          importEntries("add", parsed) =>
              /\ \A id \in IdsOf(entries) \cap IdsOf(parsed) :
                     RecordsOf(entries', id) = RecordsOf(entries, id)
              /\ NoIdTwice(entries')]_vars


---------------------------------------------------------------------------
(* Claims about cloud sync, under SpecSync *)

\* C21: cross-device reconciliation is resolved entirely by merge with incoming-wins:
\* whenever entries arrive from the cloud (on the sign-in sync and on every realtime
\* snapshot the listener acts on), the local store becomes merge(local, cloud), so a
\* local entry whose id is absent from the cloud data is still in the local store
\* afterwards.
C21_CloudEntriesAreMerged ==
    [][/\ (sync.pc = "get" /\ cloudDoc.exists /\ clientSyncFromCloud) =>
              entries' = mergeEntries(entries, cloudDoc.entries)
       /\ (sync.snapshot # NoSnapshot /\ ~sync.isSyncing /\ clientOnSnapshot) =>
              /\ entries' = mergeEntries(entries, sync.snapshot.entries)
              /\ IdsOf(entries) \subseteq IdsOf(entries')]_vars


---------------------------------------------------------------------------
(* Claims about the URL parameters, under SpecUrl *)

\* Number of entries without a clock-out
OpenCount(s) == Cardinality({i \in 1..Len(s) : IsOpen(s[i])})

---------------------------------------------------------------------------
(* Claims about the export, under SpecViewer *)

\* The entry's clockIn lies in the current date view
InCurrentView(e, v) ==
    LET r == ViewRange(v)
    IN  /\ e.clockIn >= r.start
        /\ IF r.exclusiveEnd THEN e.clockIn < r.end ELSE e.clockIn <= r.end

\* C23: the time-entries export never contains an entry whose clockIn lies outside the
\* current date view (week or custom range), whether rows are selected or not and
\* whatever operations (selection, edit, navigation) preceded the export.
C23_ExportOnlyCurrentView ==
    LET exported == exportToCSV(entries, viewer)
    IN  \A i \in 1..Len(exported) : InCurrentView(exported[i], viewer)


---------------------------------------------------------------------------
(* Claims about uploads, under SpecUpload *)

\* C24: while a user is signed in, every persisted change to the entries (clock-in,
\* clock-out, edit, deletion, clear, import) triggers an upload of the full local
\* collection to the cloud; while no user is signed in or Firebase is not configured,
\* no change triggers an upload.
C24_ChangeUploadsIffSignedIn ==
    [][/\ (isLoggedIn(sync) /\ sync.db /\ entries' # entries) =>
              /\ sync'.pendingSets = sync.pendingSets + 1
              /\ sync'.isSyncing
              /\ cloudDoc' = [exists |-> TRUE, entries |-> entries', by |-> "client"]
       /\ (~isLoggedIn(sync) \/ ~sync.db) =>
              /\ sync'.pendingSets <= sync.pendingSets
              /\ cloudDoc' = cloudDoc]_vars

\* A signed-in device has edited an entry (it ends in the future, which only the editor
\* or an import produces) and the upload of its collection is in flight
C24_Witness ==
    /\ isLoggedIn(sync)
    /\ sync.pendingSets > 0
    /\ entries # <<>>
    /\ cloudDoc = [exists |-> TRUE, entries |-> entries, by |-> "client"]
    /\ \E i \in 1..Len(entries) : ~IsOpen(entries[i]) /\ entries[i].clockOut > now


---------------------------------------------------------------------------
(* Claims about two devices changing the entries, under SpecSync *)

\* C25: there is no locking or atomic commit across validate-then-persist: two callers
\* that each check a change against the same stale copy of the collection (here: each
\* device's clock button finding no open entry in its own copy) and then both persist
\* are both accepted, and nothing detects or prevents the resulting store from
\* violating the single-open invariant: the sign-in sync stores the merge of the two
\* collections whatever it contains.
C25_StaleChecksBothPersisted ==
    [][/\ (getOpenEntry(entries) = 0 /\ handleClockButton) =>
              /\ Len(entries') = Len(entries) + 1
              /\ getOpenEntry(entries') # 0
       /\ (getOpenEntry(peer.entries) = 0 /\ peerHandleClockButton) =>
              /\ Len(peer'.entries) = Len(peer.entries) + 1
              /\ getOpenEntry(peer'.entries) # 0
       /\ (sync.pc = "get" /\ cloudDoc.exists /\ clientSyncFromCloud) =>
              entries' = saveEntries(mergeEntries(entries, cloudDoc.entries))
       /\ (peer.sync.pc = "get" /\ cloudDoc.exists /\ peerSyncFromCloud) =>
              peer'.entries = saveEntries(mergeEntries(peer.entries, cloudDoc.entries))]_vars

\* Both devices clocked in while neither knew of the other's open entry, and the store
\* of this device now holds both open entries
C25_Witness ==
    /\ OpenCount(entries) = 2
    /\ \E i, j \in 1..Len(entries) :
           /\ IsOpen(entries[i]) /\ entries[i].id <= MaxEntries
           /\ IsOpen(entries[j]) /\ entries[j].id = PeerId(1)
    /\ ~AtMostOneOpen(entries)

---------------------------------------------------------------------------
(* Claims about the validators over whole collections, under SpecEngine *)

\* C26: for any collection of structurally valid entries with distinct ids, every
\* entry passes both hasNoOverlap and isSingleOpenConsistent against the collection
\* if and only if the collection satisfies the data-model invariants: pairwise
\* non-overlap with an open entry extending to +infinity, at most one open entry, and
\* no entry beginning later than the open entry.
C26_ValidatorsPassIffInvariantsHold ==
    call.fn = "validateEach" =>
        LET all == call.allEntries
        IN  (\A i \in 1..Len(all) : call.ret[i])
                <=> /\ PairwiseDisjoint(all)
                    /\ AtMostOneOpen(all)
                    /\ OpenIsLatest(all)

\* Three entries, not in clockIn order, two closed ones touching and the open one
\* starting where the later closed one ends: every entry passes both checks
C26_Witness ==
    /\ call.fn = "validateEach"
    /\ Len(call.allEntries) = 3
    /\ IsOpen(call.allEntries[1])
    /\ call.allEntries[2].clockOut = call.allEntries[3].clockIn
    /\ call.allEntries[3].clockOut = call.allEntries[1].clockIn
    /\ \A i \in 1..3 : call.ret[i]

---------------------------------------------------------------------------
(* Claims about the totals of a summary, under SpecPay *)

\* C27: totalHours equals the sum of hours(e) over the closed entries of the
\* collection, for every configuration with non-negative thresholds: the daily tiers
\* and the weekly spillovers only move hours between tiers.
C27_TotalHoursIsSumOfClosedHours ==
    call.fn = "calculatePaySummary" =>
        call.ret.totalHours = ClosedHours(call.allEntries)

\* C28: baseHours, otHours and penaltyOTHours are each at least 0 for every valid
\* collection and every configuration with non-negative thresholds, including one
\* whose penalty threshold is lower than the corresponding overtime threshold.
C28_TierHoursNonNegative ==
    call.fn = "calculatePaySummary" =>
        /\ call.ret.baseHours >= 0
        /\ call.ret.otHours >= 0
        /\ call.ret.penaltyOTHours >= 0

---------------------------------------------------------------------------
(* Claims about the realtime listener's guard, under SpecSync *)

\* C29: a realtime snapshot caused by this client's own upload never replaces the
\* local store: whenever such a snapshot is handed to the listener, isSyncing is
\* still set (so the listener returns without saving), also when two uploads of
\* this client overlap in time or the snapshot is delivered after the upload call
\* has returned.
C29_OwnSnapshotFindsIsSyncingSet ==
    [][(/\ sync.snapshot # NoSnapshot
        /\ sync.snapshot.by = "client"
        /\ sync.snapshot.cause = "set"
        /\ clientOnSnapshot) =>
           /\ sync.isSyncing
           /\ sync'.pendingSets = sync.pendingSets]_vars

---------------------------------------------------------------------------
(* Claims about the end of sync activity, under SpecSyncLive *)

\* No upload is in flight, no sign-in sync is waiting and no snapshot is waiting for
\* a listener, on either device
SyncQuiescent ==
    /\ sync.pc = "idle" /\ sync.pendingSets = 0 /\ sync.snapshot = NoSnapshot
    /\ peer.sync.pc = "idle" /\ peer.sync.pendingSets = 0 /\ peer.sync.snapshot = NoSnapshot

\* C30: after a single local change and no further user actions, sync activity
\* between signed-in devices eventually stops: applying a received snapshot does not
\* start an unbounded chain of snapshot, saveEntries, notifyDataChanged, upload,
\* snapshot.
C30_SyncActivityEventuallyStops ==
    []((nextId > 1 /\ isLoggedIn(sync) /\ isLoggedIn(peer.sync)) => <>[]SyncQuiescent)

===========================================================================
